---- MODULE Spec2Model ----
(***************************************************************************)
(* Model of jira_utils/preprocessing.py: the user cache, the mention pass, *)
(* the smart-link pass, the HTML mention resolver and the two markup       *)
(* converters.                                                             *)
(*                                                                         *)
(* A text is a sequence of atoms.  An atom is a string standing for one    *)
(* character ("*", "|", "\n", ...) or for a run of characters that no rule *)
(* of the code can split ("[~accountid:", "smart-link", "{code", ...).     *)
(* Every regular expression of the code is an operator over such           *)
(* sequences that matches what the expression matches on the atoms used.   *)
(***************************************************************************)
EXTENDS Integers, Sequences, FiniteSets, TLC

VARIABLES
    cache,        \* lru_cache of cached_find_user: account ids, least recently used first
    lastUse,      \* history: account id -> clock value of its last cached access (0 = never)
    clock,        \* history: number of accesses that touched the cache
    lastCall,     \* history: <<>> or <<r>>, r what the last call of cached_find_user did
    nextFresh,    \* driver of SpecCache: the smallest id never stored
    repeats,      \* driver: requests made for an id requested before
    mpc,          \* _process_mentions: "idle", "loop", "done"
    mInput,       \* _process_mentions: the text argument
    mtext,        \* _process_mentions: local text
    mentions,     \* _process_mentions: local mentions (re.findall result)
    mi,           \* _process_mentions: position of the for loop in mentions
    passLookups,  \* history: jira_client.user calls of the current pass, [id, ok]
    spc,          \* _process_smart_links: "idle", "loop", "done"
    sInput,       \* _process_smart_links: the text argument
    stext,        \* _process_smart_links: local text
    smatches,     \* _process_smart_links: local matches (re.finditer result)
    si,           \* _process_smart_links: position of the for loop in matches
    hpc,          \* process_html_content: "idle", "loop", "done"
    hInput,       \* process_html_content: the tree as parsed
    hclient,      \* whether the preprocessor has a lookup client (JiraPreprocessor)
    hsoup,        \* process_html_content: soup
    hfound,       \* _process_user_mentions_in_soup: user_mentions, as paths in hInput
    hi,           \* _process_user_mentions_in_soup: position of the for loop
    hdetached,    \* the elements replace_with took out of their tree, [path, tree]
    cpc,          \* converters: "idle", "j2m_table", "j2m_done", "m2j_table", "m2j_done"
    cInput,       \* jira_to_markdown: the text argument
    mdInput,      \* markdown_to_jira: the text argument
    jOut,         \* jira_to_markdown: the text returned
    mOut,         \* markdown_to_jira: the text returned
    lines,        \* the table loop of the running converter: lines
    ci            \* the table loop of the running converter: i, counted from 1

cacheVars == <<cache, lastUse, clock, lastCall, nextFresh, repeats>>
mentionVars == <<mpc, mInput, mtext, mentions, mi, passLookups>>
linkVars == <<spc, sInput, stext, smatches, si>>
htmlVars == <<hpc, hInput, hclient, hsoup, hfound, hi, hdetached>>
convVars == <<cpc, cInput, mdInput, jOut, mOut, lines, ci>>
textVars == <<linkVars, htmlVars, convVars>>
vars == <<cacheVars, mentionVars, textVars>>

-----------------------------------------------------------------------------
(* Sequences of atoms *)

Range(s) == {s[k] : k \in DOMAIN s}

\* s[i..] starts with p
IsPrefixAt(s, p, i) ==
    /\ i + Len(p) - 1 <= Len(s)
    /\ \A k \in 1..Len(p) : s[i + k - 1] = p[k]

\* p occurs in s as a contiguous run
Occurs(s, p) == \E i \in 1..(Len(s) + 1) : IsPrefixAt(s, p, i)

RECURSIVE ReplaceFrom(_, _, _, _)
ReplaceFrom(s, old, new, i) ==
    IF i > Len(s) THEN <<>>
    ELSE IF IsPrefixAt(s, old, i)
         THEN new \o ReplaceFrom(s, old, new, i + Len(old))
         ELSE <<s[i]>> \o ReplaceFrom(s, old, new, i + 1)

\* str.replace(old, new) for a non-empty old: every non-overlapping
\* occurrence, left to right
StrReplace(s, old, new) == ReplaceFrom(s, old, new, 1)

\* the candidates of a scan, smallest first: Min of a non-empty set
MinOf(S) == CHOOSE x \in S : \A y \in S : x <= y

RECURSIVE Concat(_)
Concat(ss) == IF ss = <<>> THEN <<>> ELSE Head(ss) \o Concat(Tail(ss))

\* all sequences over S of length at most n
SeqsUpTo(S, n) == UNION {[1..k -> S] : k \in 0..n}

-----------------------------------------------------------------------------
(* Bounds *)

MaxPieces == 3    \* pieces (tokens, words) of a text given to the mention pass
MaxExtra == 1     \* account ids beyond the capacity of the cache
MaxRepeats == 2   \* requests for an id requested before, per behaviour
MaxNodes == 4     \* nodes of a parsed HTML document
MaxRun == 2       \* bullet characters at the start of a list line
MaxCode == 3      \* atoms of the content of a code block or code span
MaxLen == 8       \* atoms of a wiki text of table rows
MaxMdLen == 6     \* atoms of a Markdown text of table rows

-----------------------------------------------------------------------------
(* The parts of the engine that a specification leaves alone *)

MentionsIdle ==
    /\ mpc = "idle"
    /\ mInput = <<>>
    /\ mtext = <<>>
    /\ mentions = <<>>
    /\ mi = 1
    /\ passLookups = <<>>

CacheIdle ==
    /\ cache = <<>>
    /\ lastUse = <<>>
    /\ clock = 0
    /\ lastCall = <<>>
    /\ nextFresh = 1
    /\ repeats = 0

LinksIdle ==
    /\ spc = "idle"
    /\ sInput = <<>>
    /\ stext = <<>>
    /\ smatches = <<>>
    /\ si = 1

EmptySoup == [tag |-> "[document]", val |-> <<>>, kids |-> <<>>]

HtmlIdle ==
    /\ hpc = "idle"
    /\ hInput = EmptySoup
    /\ hclient = FALSE
    /\ hsoup = EmptySoup
    /\ hfound = <<>>
    /\ hi = 1
    /\ hdetached = <<>>

ConvIdle ==
    /\ cpc = "idle"
    /\ cInput = <<>>
    /\ mdInput = <<>>
    /\ jOut = <<>>
    /\ mOut = <<>>
    /\ lines = <<>>
    /\ ci = 1

TextIdle == LinksIdle /\ HtmlIdle /\ ConvIdle

-----------------------------------------------------------------------------
(* User cache: _create_cached_find_user *)

maxsize == 100

\* a hit moves the entry to the most recently used end
LruTouch(c, id) == SelectSeq(c, LAMBDA x : x # id) \o <<id>>

LruStoreNoEvict(c, id) == Append(c, id)

\* a miss stores the result; a full cache gives up its least recently used entry
LruStore(c, id) ==
    IF Len(c) >= maxsize THEN Tail(c) \o <<id>> ELSE Append(c, id)

\* One call of self._find_user(id).  ok: whether jira_client.user(id)
\* returns (TRUE) or raises (FALSE); it is only called on a miss.
CachedFindUser(id, ok) ==
    IF id \in Range(cache)
    THEN /\ cache' = LruTouch(cache, id)
         /\ clock' = clock + 1
         /\ lastUse' = [lastUse EXCEPT ![id] = clock + 1]
         /\ lastCall' = <<[id |-> id, external |-> FALSE, stored |-> FALSE,
                           evicted |-> {}]>>
    ELSE IF ok
    THEN /\ cache' = LruStore(cache, id)
         /\ clock' = clock + 1
         /\ lastUse' = [lastUse EXCEPT ![id] = clock + 1]
         /\ lastCall' = <<[id |-> id, external |-> TRUE, stored |-> TRUE,
                           evicted |-> Range(cache) \ Range(LruStore(cache, id))]>>
    ELSE /\ UNCHANGED <<cache, clock, lastUse>>
         /\ lastCall' = <<[id |-> id, external |-> TRUE, stored |-> FALSE,
                           evicted |-> {}]>>

-----------------------------------------------------------------------------
(* Mention pass: _process_mentions, with pattern \[~accountid:(.*?)\] *)

MentionOpen == "[~accountid:"

\* the account ids the tracker knows, as they stand in a text
MentionIds == {<<"u1">>, <<"u2">>}

\* jira_client.user(id).displayName
DisplayName(id) == IF id = <<"u1">> THEN <<"Ada">> ELSE <<"Bob">>

\* f"[~accountid:{account_id}]"
MentionToken(id) == <<MentionOpen>> \o id \o <<"]">>

\* f"@<{displayName}>"
MentionShown(id) == <<"@<">> \o DisplayName(id) \o <<">">>

\* the end of the match of \[~accountid:(.*?)\] that starts at i: the first
\* "]" after i with no line break before it ("." matches no line break);
\* {} when there is no match at i
MentionEnds(s, i) ==
    IF i > Len(s) \/ s[i] # MentionOpen THEN {}
    ELSE LET close == {j \in (i + 1)..Len(s) :
                          /\ s[j] = "]"
                          /\ \A k \in (i + 1)..(j - 1) : s[k] # "\n"}
         IN  IF close = {} THEN {} ELSE {MinOf(close)}

RECURSIVE FindAllMentionsFrom(_, _)
FindAllMentionsFrom(s, i) ==
    IF i > Len(s) THEN <<>>
    ELSE IF MentionEnds(s, i) = {} THEN FindAllMentionsFrom(s, i + 1)
    ELSE LET j == MinOf(MentionEnds(s, i))
         IN  <<SubSeq(s, i + 1, j - 1)>> \o FindAllMentionsFrom(s, j + 1)

\* re.findall(pattern, text): group 1 of every match, left to right
FindAllMentions(s) == FindAllMentionsFrom(s, 1)

\* what a text is made of: mention tokens and words
MentionPieces == {MentionToken(id) : id \in MentionIds} \cup {<<"x">>, <<" ">>}

MentionTexts == {Concat(ps) : ps \in SeqsUpTo(MentionPieces, MaxPieces)}

\* line 197: the call, up to the first iteration of the loop
ProcessMentionsCall(t) ==
    /\ mpc \in {"idle", "done"}
    /\ mInput' = t
    /\ mtext' = t
    /\ mentions' = FindAllMentions(t)
    /\ mi' = 1
    /\ passLookups' = <<>>
    /\ mpc' = "loop"
    /\ UNCHANGED <<cacheVars, textVars>>

\* what an iteration does to the loop once the lookup raised: the except
\* clause logs, and the loop goes on
AfterFailureAbort(i) == Len(mentions) + 1

AfterFailure(i) == i + 1

\* lines 198-203: one iteration; ok: whether jira_client.user(account_id)
\* returns or raises
MentionStep(ok) ==
    /\ mpc = "loop"
    /\ mi <= Len(mentions)
    /\ LET id == mentions[mi]
       IN  /\ passLookups' = Append(passLookups, [id |-> id, ok |-> ok])
           /\ IF ok
              THEN /\ mtext' = StrReplace(mtext, MentionToken(id), MentionShown(id))
                   /\ mi' = mi + 1
              ELSE /\ mtext' = mtext
                   /\ mi' = AfterFailure(mi)
    /\ UNCHANGED <<mpc, mInput, mentions>>
    /\ UNCHANGED <<cacheVars, textVars>>

\* line 204
ProcessMentionsReturn ==
    /\ mpc = "loop"
    /\ mi > Len(mentions)
    /\ mpc' = "done"
    /\ UNCHANGED <<mInput, mtext, mentions, mi, passLookups>>
    /\ UNCHANGED <<cacheVars, textVars>>

\* the host calls self._find_user(id) between two passes
FindUserCall(id, ok) ==
    /\ mpc # "loop"
    /\ id \in Range(cache) => repeats < MaxRepeats
    /\ repeats' = IF id \in Range(cache) THEN repeats + 1 ELSE repeats
    /\ CachedFindUser(id, ok)
    /\ UNCHANGED nextFresh
    /\ UNCHANGED <<mentionVars, textVars>>

InitMentions ==
    /\ cache = <<>>
    /\ lastUse = [id \in MentionIds |-> 0]
    /\ clock = 0
    /\ lastCall = <<>>
    /\ nextFresh = 1
    /\ repeats = 0
    /\ MentionsIdle
    /\ TextIdle

NextMentions ==
    \/ /\ mpc \in {"idle", "done"}
       /\ \E t \in MentionTexts : ProcessMentionsCall(t)
    \/ \E ok \in BOOLEAN : MentionStep(ok)
    \/ ProcessMentionsReturn
    \/ \E id \in MentionIds, ok \in BOOLEAN : FindUserCall(id, ok)

SpecMentions == InitMentions /\ [][NextMentions]_vars

\* the ids some lookup of the current pass returned a user for
OkIds == {passLookups[k].id : k \in {n \in DOMAIN passLookups : passLookups[n].ok}}

\* the text with every mention token of an id in ok shown as @<displayName>,
\* token by token, and everything else kept
RECURSIVE ShownFrom(_, _, _)
ShownFrom(s, i, ok) ==
    IF i > Len(s) THEN <<>>
    ELSE IF MentionEnds(s, i) = {} THEN <<s[i]>> \o ShownFrom(s, i + 1, ok)
    ELSE LET j == MinOf(MentionEnds(s, i))
             id == SubSeq(s, i + 1, j - 1)
         IN  (IF id \in ok THEN MentionShown(id) ELSE MentionToken(id))
                 \o ShownFrom(s, j + 1, ok)

\* C1: when the mention pass returns, it has looked up every mention of the
\* text, also those after a lookup that raised; the result is the text with
\* exactly the tokens whose id some lookup resolved shown as @<displayName>,
\* and the tokens whose lookups all raised are in it unchanged.
C1_FailuresAreContained ==
    mpc = "done" =>
        /\ Len(passLookups) = Len(FindAllMentions(mInput))
        /\ \A k \in DOMAIN passLookups : passLookups[k].id = FindAllMentions(mInput)[k]
        /\ mtext = ShownFrom(mInput, 1, OkIds)
        /\ \A id \in MentionIds \ OkIds :
               Occurs(mInput, MentionToken(id)) => Occurs(mtext, MentionToken(id))

\* C1 witness: a pass has returned in which a lookup raised and a later
\* lookup, of another id, resolved: the first token is still in the result
\* and the second is shown by name.
C1_Witness ==
    /\ mpc = "done"
    /\ \E j, k \in DOMAIN passLookups :
           /\ j < k
           /\ ~passLookups[j].ok
           /\ passLookups[k].ok
           /\ passLookups[j].id \notin OkIds
           /\ Occurs(mtext, MentionToken(passLookups[j].id))
           /\ Occurs(mtext, MentionShown(passLookups[k].id))
           /\ ~Occurs(mtext, MentionToken(passLookups[k].id))

\* C2: the mention pass resolves ids through the cache: it issues an external
\* lookup only for an id that is not cached, and a lookup that resolved is
\* stored, so the pass issues no second lookup of that id (k occurrences of
\* one id, from an empty cache, cause one external lookup).
C2_MentionsGoThroughCache ==
    \A k \in DOMAIN passLookups :
        /\ passLookups[k].id \notin Range(cache)
        /\ \A j \in 1..(k - 1) :
               passLookups[j].id = passLookups[k].id => ~passLookups[j].ok

-----------------------------------------------------------------------------
(* The cache alone, with more account ids than it holds *)

\* account ids are 1..NumIds here; they are asked for in increasing order
NumIds == maxsize + MaxExtra

\* ids stored once and no longer cached
EvictedIds == {id \in 1..(nextFresh - 1) : id \notin Range(cache)}

\* the requests of the host: the next id never stored, and, once the cache is
\* full, its least and most recently used entries and the evicted ids
CacheRequests ==
    (IF nextFresh <= NumIds THEN {nextFresh} ELSE {})
        \cup (IF Len(cache) = maxsize /\ repeats < MaxRepeats
              THEN {cache[1], cache[Len(cache)]} \cup EvictedIds
              ELSE {})

CacheRequest(id, ok) ==
    /\ id \in CacheRequests
    /\ CachedFindUser(id, ok)
    /\ nextFresh' = IF id = nextFresh /\ ok THEN nextFresh + 1 ELSE nextFresh
    /\ repeats' = IF id < nextFresh THEN repeats + 1 ELSE repeats
    /\ UNCHANGED <<mentionVars, textVars>>

InitCache ==
    /\ cache = <<>>
    /\ lastUse = [id \in 1..NumIds |-> 0]
    /\ clock = 0
    /\ lastCall = <<>>
    /\ nextFresh = 1
    /\ repeats = 0
    /\ MentionsIdle
    /\ TextIdle

NextCache == \E id \in 1..NumIds, ok \in BOOLEAN : CacheRequest(id, ok)

SpecCache == InitCache /\ [][NextCache]_vars

\* the cache holds at most maxsize ids, each once, in the order of their last use
CacheInOrder ==
    /\ Len(cache) <= maxsize
    /\ Cardinality(Range(cache)) = Len(cache)
    /\ \A i, j \in DOMAIN cache : i < j => lastUse[cache[i]] < lastUse[cache[j]]

\* an id leaves the cache only when a lookup is stored into a full cache, and
\* it is the id whose last use is the oldest
EvictsLeastRecentlyUsed ==
    \A k \in DOMAIN lastCall :
        LET r == lastCall[k]
        IN  /\ Cardinality(r.evicted) <= 1
            /\ r.evicted # {} =>
                   /\ r.stored
                   /\ Len(cache) = maxsize
                   /\ r.evicted \cap Range(cache) = {}
                   /\ \A e \in r.evicted, c \in Range(cache) : lastUse[e] < lastUse[c]
            /\ r.stored => r.id \in Range(cache)

\* a call issues an external lookup exactly when its id is not cached
LookupOnlyOnMiss ==
    cacheVars' # cacheVars =>
        /\ lastCall' # <<>>
        /\ lastCall'[1].external <=> lastCall'[1].id \notin Range(cache)

\* C3: the cache never holds more than 100 ids; the id evicted when a lookup
\* is stored into the full cache is the least recently used one; a call for
\* an id that is not cached (an evicted one too) issues an external lookup,
\* a call for a cached id issues none.
C3_CacheBoundedLRU ==
    /\ [](CacheInOrder /\ EvictsLeastRecentlyUsed)
    /\ [][LookupOnlyOnMiss]_vars

\* C3 witness: an id stored before and evicted since was asked for again, the
\* call issued an external lookup and stored it into the full cache, evicting
\* an id, while an id stored earlier and used since is still cached.
C3_Witness ==
    /\ Len(cache) = maxsize
    /\ \E k \in DOMAIN lastCall :
           LET r == lastCall[k]
           IN  /\ r.external
               /\ r.stored
               /\ r.id < nextFresh - 1
               /\ r.evicted # {}
               /\ \E c \in Range(cache) : c < r.id

-----------------------------------------------------------------------------
(* Smart-link pass: _process_smart_links *)

\* self.base_url, stripped of its trailing "/" (line 28)
base_url == <<"https://host">>

\* [A-Z]+-\d+
IsIssueKey(a) == a \in {"PROJ-7"}

\* wiki/spaces/.+?/pages/\d+/
IsWikiPagePrefix(a) == a \in {"wiki/spaces/S/pages/12/"}

\* the matches of link_pattern \[(.*?)\|(.*?)\|smart-link\] that start at i:
\* <<p, q>>, the "|" after the text and the "|" before smart-link]
LinkEnds(s, i) ==
    IF i > Len(s) \/ s[i] # "[" THEN {}
    ELSE {pq \in ((i + 1)..Len(s)) \X ((i + 2)..Len(s)) :
             /\ pq[1] < pq[2]
             /\ s[pq[1]] = "|"
             /\ IsPrefixAt(s, <<"|", "smart-link", "]">>, pq[2])
             /\ \A k \in (i + 1)..(pq[2] - 1) : s[k] # "\n"}

\* both groups are lazy: the shortest text, then the shortest url
LinkMatchAt(s, i) ==
    LET E == LinkEnds(s, i)
        p == MinOf({pq[1] : pq \in E})
        q == MinOf({pq[2] : pq \in {x \in E : x[1] = p}})
    IN  [full |-> SubSeq(s, i, q + 2),
         link_text |-> SubSeq(s, i + 1, p - 1),
         link_url |-> SubSeq(s, p + 1, q - 1)]

RECURSIVE FindIterLinksFrom(_, _)
FindIterLinksFrom(s, i) ==
    IF i > Len(s) THEN <<>>
    ELSE IF LinkEnds(s, i) = {} THEN FindIterLinksFrom(s, i + 1)
    ELSE LET m == LinkMatchAt(s, i)
         IN  <<m>> \o FindIterLinksFrom(s, i + Len(m.full))

\* re.finditer(link_pattern, text)
FindIterLinks(s) == FindIterLinksFrom(s, 1)

\* re.search(r"browse/([A-Z]+-\d+)", link_url): the places of the key
IssueKeyPlaces(u) ==
    {k \in 2..Len(u) : u[k - 1] = "browse/" /\ IsIssueKey(u[k])}

\* re.search(r"wiki/spaces/.+?/pages/\d+/(.+?)(?:\?|$)", link_url): the
\* places of the page prefix that a title of one atom or more follows
WikiPlaces(u) ==
    {k \in 1..(Len(u) - 1) : IsWikiPagePrefix(u[k]) /\ u[k + 1] # "\n"}

\* group 1 of the wiki match at w: up to the first "?" or the end
WikiTitle(u, w) ==
    LET stops == {k \in (w + 2)..(Len(u) + 1) : k = Len(u) + 1 \/ u[k] = "?"}
    IN  SubSeq(u, w + 1, MinOf(stops) - 1)

RECURSIVE DropSpaces(_)
DropSpaces(t) == IF t # <<>> /\ Head(t) = " " THEN DropSpaces(Tail(t)) ELSE t

\* lines 228-229: "+" to space, then a leading issue key and the spaces
\* after it are dropped
ReadableTitle(t) ==
    LET r == [k \in DOMAIN t |-> IF t[k] = "+" THEN " " ELSE t[k]]
    IN  IF Len(r) >= 2 /\ IsIssueKey(r[1]) /\ r[2] = " "
        THEN DropSpaces(Tail(r))
        ELSE r

\* link_url.split("?")[0]
BeforeQuery(u) ==
    LET qs == {k \in DOMAIN u : u[k] = "?"}
    IN  IF qs = {} THEN u ELSE SubSeq(u, 1, MinOf(qs) - 1)

MdLink(title, url) == <<"[">> \o title \o <<"]", "(">> \o url \o <<")">>

\* lines 217-233: what a match is replaced by
LinkRendering(m) ==
    IF IssueKeyPlaces(m.link_url) # {}
    THEN LET key == <<m.link_url[MinOf(IssueKeyPlaces(m.link_url))]>>
         IN  MdLink(key, base_url \o <<"/browse/">> \o key)
    ELSE IF WikiPlaces(m.link_url) # {}
    THEN MdLink(ReadableTitle(WikiTitle(m.link_url, MinOf(WikiPlaces(m.link_url)))),
                m.link_url)
    ELSE MdLink(m.link_text, BeforeQuery(m.link_url))

\* f"[{text}|{url}|smart-link]"
SmartLinkToken(t, u) == <<"[">> \o t \o <<"|">> \o u \o <<"|", "smart-link", "]">>

LinkTitles == {<<"T">>}

IssueUrl == <<"https://h/", "browse/", "PROJ-7">>
WikiUrl == <<"https://h/", "wiki/spaces/S/pages/12/", "PROJ-7", "+", "Page", "?", "q">>
WikiIssueUrl == <<"https://h/", "wiki/spaces/S/pages/12/", "browse/", "PROJ-7">>
PlainUrl == <<"https://h/", "x">>
QueryUrl == <<"https://h/", "x", "?", "q">>

LinkUrls == {IssueUrl, WikiUrl, WikiIssueUrl, PlainUrl, QueryUrl}

\* what a text is made of: smart links, piped links [a|u], words
LinkPieces ==
    {SmartLinkToken(t, u) : t \in LinkTitles, u \in LinkUrls}
        \cup {<<"[", "a", "|", "u", "]">>, <<"x">>, <<" ">>}

LinkTexts == {Concat(ps) : ps \in SeqsUpTo(LinkPieces, MaxPieces)}

\* lines 209-210
SmartLinksCall(t) ==
    /\ spc = "idle"
    /\ sInput' = t
    /\ stext' = t
    /\ smatches' = FindIterLinks(t)
    /\ si' = 1
    /\ spc' = "loop"
    /\ UNCHANGED <<cacheVars, mentionVars, htmlVars, convVars>>

\* lines 212-233: one iteration
SmartLinkStep ==
    /\ spc = "loop"
    /\ si <= Len(smatches)
    /\ stext' = StrReplace(stext, smatches[si].full, LinkRendering(smatches[si]))
    /\ si' = si + 1
    /\ UNCHANGED <<spc, sInput, smatches>>
    /\ UNCHANGED <<cacheVars, mentionVars, htmlVars, convVars>>

\* line 235
SmartLinksReturn ==
    /\ spc = "loop"
    /\ si > Len(smatches)
    /\ spc' = "done"
    /\ UNCHANGED <<sInput, stext, smatches, si>>
    /\ UNCHANGED <<cacheVars, mentionVars, htmlVars, convVars>>

InitLinks ==
    /\ CacheIdle
    /\ MentionsIdle
    /\ TextIdle

NextLinks ==
    \/ /\ spc = "idle"
       /\ \E t \in LinkTexts : SmartLinksCall(t)
    \/ SmartLinkStep
    \/ SmartLinksReturn

SpecLinks == InitLinks /\ [][NextLinks]_vars

\* the three renderings of a smart link, as the documentation orders them
DocumentedRendering(t, u) ==
    IF \E k \in 2..Len(u) : u[k - 1] = "browse/" /\ IsIssueKey(u[k])
    THEN LET k == MinOf({n \in 2..Len(u) : u[n - 1] = "browse/" /\ IsIssueKey(u[n])})
         IN  <<"[", u[k], "]", "(">> \o base_url \o <<"/browse/", u[k], ")">>
    ELSE IF u = WikiUrl
    THEN <<"[", "Page", "]", "(">> \o u \o <<")">>
    ELSE <<"[">> \o t \o <<"]", "(">> \o BeforeQuery(u) \o <<")">>

\* C7: when the smart-link pass returns, every [text|url|smart-link] token of
\* the text has been rewritten by its rendering (issue link, else wiki page
\* link, else [text](url without query string)), and no |smart-link] is left.
C7_EverySmartLinkRendered ==
    spc = "done" =>
        /\ ~Occurs(stext, <<"|", "smart-link", "]">>)
        /\ \A t \in LinkTitles, u \in LinkUrls :
               Occurs(sInput, SmartLinkToken(t, u))
                   => Occurs(stext, DocumentedRendering(t, u))

-----------------------------------------------------------------------------
(* HTML mention resolver: process_html_content *)

\* A node of the tree: an element (tag, val the value of its ri:account-id
\* attribute, <<>> without one, kids) or a text node (tag "text", val its text).
TextNode(v) == [tag |-> "text", val |-> v, kids |-> <<>>]

Element(tag, val, kids) == [tag |-> tag, val |-> val, kids |-> kids]

RECURSIVE NodeAt(_, _)
NodeAt(t, p) == IF p = <<>> THEN t ELSE NodeAt(t.kids[Head(p)], Tail(p))

RECURSIVE ReplaceAt(_, _, _)
ReplaceAt(t, p, n) ==
    IF p = <<>> THEN n
    ELSE [t EXCEPT !.kids = [@ EXCEPT ![Head(p)] = ReplaceAt(@, Tail(p), n)]]

\* the paths of the descendants of the node at p, in document order
RECURSIVE DescendantsFrom(_, _, _)
DescendantsFrom(t, p, k) ==
    IF k > Len(NodeAt(t, p).kids) THEN <<>>
    ELSE <<p \o <<k>>>> \o DescendantsFrom(t, p \o <<k>>, 1)
             \o DescendantsFrom(t, p, k + 1)

\* element.find_all(tag), as paths from t
FindAllTags(t, tag) ==
    SelectSeq(DescendantsFrom(t, <<>>, 1), LAMBDA p : NodeAt(t, p).tag = tag)

\* element.find(tag): <<>> (None) or the first of find_all
FindTag(t, tag) ==
    IF FindAllTags(t, tag) = <<>> THEN <<>> ELSE <<Head(FindAllTags(t, tag))>>

\* "@" in link_body.get_text(strip=True)
HasAtText(t) ==
    \E k \in DOMAIN FindAllTags(t, "text") :
        "@" \in Range(NodeAt(t, FindAllTags(t, "text")[k]).val)

\* user_element.find("ri:user") carrying ri:account-id: its account id
UserRefAccount(el) ==
    LET u == FindTag(el, "ri:user")
    IN  IF u # <<>> /\ NodeAt(el, u[1]).val # <<>> THEN {NodeAt(el, u[1]).val} ELSE {}

MentionAccountByBody(el) ==
    IF UserRefAccount(el) # {} THEN UserRefAccount(el)
    ELSE LET b == FindTag(el, "ac:link-body")
         IN  IF b # <<>> /\ HasAtText(NodeAt(el, b[1])) THEN {<<>>} ELSE {}

\* lines 72-89: the account id the link element is replaced for, if any
MentionAccount(el) ==
    IF UserRefAccount(el) # {} THEN UserRefAccount(el)
    ELSE LET b == FindTag(el, "ac:link-body")
         IN  IF b # <<>> /\ HasAtText(NodeAt(el, b[1])) THEN UserRefAccount(el) ELSE {}

FallbackTextBare(account_id) == <<"@">> \o account_id

\* line 116: f"@user_{account_id}"
FallbackText(account_id) == <<"@user_">> \o account_id

\* lines 99-105 and 116-118: the node a mention is replaced with; the lookup
\* client is not consulted
ReplacementNode(account_id, client) == TextNode(FallbackText(account_id))

IsPrefixOf(q, p) == Len(q) <= Len(p) /\ SubSeq(p, 1, Len(q)) = q

\* the detached trees that hold the element of path p, and the deepest one
OwnersOf(p) ==
    {k \in DOMAIN hdetached :
        Len(hdetached[k].path) < Len(p) /\ IsPrefixOf(hdetached[k].path, p)}

OwnerOf(p) ==
    CHOOSE k \in OwnersOf(p) :
        \A j \in OwnersOf(p) : Len(hdetached[j].path) <= Len(hdetached[k].path)

\* the documents: forests of n nodes
Leaves ==
    {TextNode(<<"@", "x">>), Element("ri:user", <<"u1">>, <<>>),
     Element("ri:user", <<>>, <<>>), Element("ac:link", <<>>, <<>>),
     Element("ac:link-body", <<>>, <<>>)}

RECURSIVE ForestsOf(_)
ForestsOf(n) ==
    IF n = 0 THEN {<<>>}
    ELSE UNION {
        {<<t>> \o f :
            t \in (IF k = 1 THEN Leaves
                   ELSE {Element(c, <<>>, g) :
                            c \in {"ac:link", "ac:link-body"}, g \in ForestsOf(k - 1)}),
            f \in ForestsOf(n - k)} : k \in 1..n}

\* the parser joins neighbouring text into one text node
RECURSIVE NoTwinTexts(_)
NoTwinTexts(f) ==
    /\ \A k \in 1..(Len(f) - 1) : ~(f[k].tag = "text" /\ f[k + 1].tag = "text")
    /\ \A k \in DOMAIN f : NoTwinTexts(f[k].kids)

Documents ==
    {[tag |-> "[document]", val |-> <<>>, kids |-> f] :
        f \in {g \in UNION {ForestsOf(n) : n \in 0..MaxNodes} : NoTwinTexts(g)}}

\* lines 43 and 66: the tree is parsed and the link elements are collected
ProcessHtmlCall(doc, client) ==
    /\ hpc = "idle"
    /\ hInput' = doc
    /\ hclient' = client
    /\ hsoup' = doc
    /\ hfound' = FindAllTags(doc, "ac:link")
    /\ hi' = 1
    /\ hdetached' = <<>>
    /\ hpc' = "loop"
    /\ UNCHANGED <<cacheVars, mentionVars, linkVars, convVars>>

\* lines 68-89: one iteration.  The element is in the soup, or in a tree an
\* earlier replace_with took out of it.
UserMentionStep ==
    /\ hpc = "loop"
    /\ hi <= Len(hfound)
    /\ LET p == hfound[hi]
           inSoup == OwnersOf(p) = {}
           root == IF inSoup THEN hsoup ELSE hdetached[OwnerOf(p)].tree
           rel == IF inSoup THEN p
                  ELSE SubSeq(p, Len(hdetached[OwnerOf(p)].path) + 1, Len(p))
           el == NodeAt(root, rel)
           acc == MentionAccount(el)
       IN  IF acc = {}
           THEN UNCHANGED <<hsoup, hdetached>>
           ELSE LET id == CHOOSE a \in acc : TRUE
                    new == ReplaceAt(root, rel, ReplacementNode(id, hclient))
                IN  /\ hsoup' = IF inSoup THEN new ELSE hsoup
                    /\ hdetached' =
                           Append(IF inSoup THEN hdetached
                                  ELSE [hdetached EXCEPT ![OwnerOf(p)].tree = new],
                                  [path |-> p, tree |-> el])
    /\ hi' = hi + 1
    /\ UNCHANGED <<hpc, hInput, hclient, hfound>>
    /\ UNCHANGED <<cacheVars, mentionVars, linkVars, convVars>>

\* lines 49-52: the soup is serialized
ProcessHtmlReturn ==
    /\ hpc = "loop"
    /\ hi > Len(hfound)
    /\ hpc' = "done"
    /\ UNCHANGED <<hInput, hclient, hsoup, hfound, hi, hdetached>>
    /\ UNCHANGED <<cacheVars, mentionVars, linkVars, convVars>>

InitHtml ==
    /\ CacheIdle
    /\ MentionsIdle
    /\ TextIdle

NextHtml ==
    \/ /\ hpc = "idle"
       /\ \E doc \in Documents, client \in BOOLEAN : ProcessHtmlCall(doc, client)
    \/ UserMentionStep
    \/ ProcessHtmlReturn

SpecHtml == InitHtml /\ [][NextHtml]_vars

\* the tree with every link element whose first user reference carries an
\* account id replaced, outermost first, by the text @user_<accountId>
RECURSIVE Resolved(_)
Resolved(n) ==
    IF n.tag = "ac:link" /\ UserRefAccount(n) # {}
    THEN [tag |-> "text",
          val |-> <<"@user_">> \o (CHOOSE a \in UserRefAccount(n) : TRUE),
          kids |-> <<>>]
    ELSE [n EXCEPT !.kids = [k \in DOMAIN n.kids |-> Resolved(n.kids[k])]]

InputPaths == {<<>>} \cup Range(DescendantsFrom(hInput, <<>>, 1))

\* a user reference with an account id stands somewhere below the element
HasAccountRef(el) ==
    \E k \in DOMAIN FindAllTags(el, "ri:user") :
        NodeAt(el, FindAllTags(el, "ri:user")[k]).val # <<>>

\* the node at p of the document as parsed, or a node above it, is a link
\* element matched as a user mention
InMatchedLink(p) ==
    \E n \in 1..Len(p) :
        /\ NodeAt(hInput, SubSeq(p, 1, n)).tag = "ac:link"
        /\ UserRefAccount(NodeAt(hInput, SubSeq(p, 1, n))) # {}

\* what stands at p in t, "none" when t has no such place
RECURSIVE NodeAtOrNone(_, _)
NodeAtOrNone(t, p) ==
    IF p = <<>> THEN t
    ELSE IF Head(p) \notin DOMAIN t.kids THEN [tag |-> "none", val |-> <<>>, kids |-> <<>>]
    ELSE NodeAtOrNone(t.kids[Head(p)], Tail(p))

\* C11: all through the pass and when it has returned, a link element with
\* no user reference carrying an account id, standing outside every matched
\* link element, is in the tree at its place with everything below it
\* unchanged; and every other node outside the matched link elements is at
\* its place with its tag, its attribute and the number of its children.
C11_UnmatchedLinksUntouched ==
    \A p \in InputPaths :
        ~InMatchedLink(p) =>
            /\ NodeAtOrNone(hsoup, p).tag = NodeAt(hInput, p).tag
            /\ NodeAtOrNone(hsoup, p).val = NodeAt(hInput, p).val
            /\ Len(NodeAtOrNone(hsoup, p).kids) = Len(NodeAt(hInput, p).kids)
            /\ (NodeAt(hInput, p).tag = "ac:link" /\ ~HasAccountRef(NodeAt(hInput, p)))
                   => NodeAtOrNone(hsoup, p) = NodeAt(hInput, p)

\* C11 witness: the resolver has returned from a document that holds a link
\* element around a user reference without account id, still there, beside a
\* matched link element that was replaced.
C11_Witness ==
    /\ hpc = "done"
    /\ hsoup # hInput
    /\ \E k \in DOMAIN hInput.kids :
          /\ hInput.kids[k] = Element("ac:link", <<>>, <<Element("ri:user", <<>>, <<>>)>>)
          /\ hsoup.kids[k] = hInput.kids[k]

-----------------------------------------------------------------------------
(* Texts of the converters *)

\* one backtick
Tick == "tick"

Fence == <<Tick, Tick, Tick>>

\* [a-zA-Z0-9], by the last character of the atom
IsAlnum(a) == a \in {"a", "h", "1", "2", "py", "{code"}

\* \w
IsWord(a) == a \in {"a", "h", "1", "2", "py", "_"}

\* [a-z]
IsLower(a) == a \in {"a", "h", "py"}

\* [0-6] and int()
DigitValue(a) == IF a = "1" THEN 1 ELSE 2

IsHeaderDigit(a) == a \in {"1", "2"}

DigitAtoms == <<"0", "1", "2", "3", "4", "5", "6", "7", "8", "9">>

\* str(n)
RECURSIVE Decimal(_)
Decimal(n) ==
    IF n < 10 THEN <<DigitAtoms[n + 1]>>
    ELSE Decimal(n \div 10) \o <<DigitAtoms[(n % 10) + 1]>>

\* s * n
RECURSIVE Times(_, _)
Times(s, n) == IF n <= 0 THEN <<>> ELSE s \o Times(s, n - 1)

Count(s, a) == Cardinality({k \in DOMAIN s : s[k] = a})

\* text.split("\n")
RECURSIVE SplitLines(_)
SplitLines(s) ==
    LET brk == {k \in DOMAIN s : s[k] = "\n"}
    IN  IF brk = {} THEN <<s>>
        ELSE <<SubSeq(s, 1, MinOf(brk) - 1)>>
                 \o SplitLines(SubSeq(s, MinOf(brk) + 1, Len(s)))

\* "\n".join(lines)
RECURSIVE JoinLines(_)
JoinLines(ls) ==
    IF Len(ls) = 0 THEN <<>>
    ELSE IF Len(ls) = 1 THEN ls[1]
    ELSE ls[1] \o <<"\n">> \o JoinLines(Tail(ls))

-----------------------------------------------------------------------------
(* jira_to_markdown.  The rules for bq., {{ }}, ??, ^, ~, {noformat},      *)
(* {quote}, images, links and {color} need "b", "{{", "?", "^", "~", "!",  *)
(* "[" or "{color": characters no text below holds, so they change nothing *)
(* and are left out.                                                       *)

\* lines 254-260: (?<![a-zA-Z0-9])([*_])(.*?)\1, "*" to "**" and "_" to "*"
RECURSIVE JiraEmphasisFrom(_, _)
JiraEmphasisFrom(s, i) ==
    IF i > Len(s) THEN <<>>
    ELSE LET ends == {e \in (i + 1)..Len(s) :
                         /\ s[e] = s[i]
                         /\ \A k \in (i + 1)..(e - 1) : s[k] # "\n"}
             m == IF s[i] = "*" THEN <<"*", "*">> ELSE <<"*">>
         IN  IF /\ s[i] \in {"*", "_"}
                /\ (i = 1 \/ ~IsAlnum(s[i - 1]))
                /\ ends # {}
             THEN m \o SubSeq(s, i + 1, MinOf(ends) - 1) \o m
                      \o JiraEmphasisFrom(s, MinOf(ends) + 1)
             ELSE <<s[i]>> \o JiraEmphasisFrom(s, i + 1)

JiraEmphasis(s) == JiraEmphasisFrom(s, 1)

IsBullet(a) == a \in {"#", "-", "+", "*"}

\* the length of the run of bullet characters a line starts with
BulletRun(l) ==
    LET stops == {k \in 1..(Len(l) + 1) : k = Len(l) + 1 \/ ~IsBullet(l[k])}
    IN  MinOf(stops) - 1

\* lines 523-524: indent_level = len(jira_bullets) - 1, two spaces a level
ListIndent(n) == Times(<<" ">>, (n - 1) * 2)

\* lines 519-530: _convert_jira_list_to_markdown
ConvertJiraListToMarkdown(jira_bullets, content) ==
    ListIndent(Len(jira_bullets))
        \o (IF jira_bullets[Len(jira_bullets)] = "#" THEN <<"1", ".">> ELSE <<"-">>)
        \o <<" ">> \o content

\* lines 263-268: ^((?:#|-|\+|\*)+) (.*)$ on one line
JiraListLine(l) ==
    LET n == BulletRun(l)
    IN  IF n >= 1 /\ n < Len(l) /\ l[n + 1] = " "
        THEN ConvertJiraListToMarkdown(SubSeq(l, 1, n), SubSeq(l, n + 2, Len(l)))
        ELSE l

\* flags=re.MULTILINE, and the pattern stays within a line: line by line
JiraLists(s) ==
    LET ls == SplitLines(s)
    IN  JoinLines([k \in DOMAIN ls |-> JiraListLine(ls[k])])

\* lines 271-276: ^h([0-6])\.(.*)$ on one line
JiraHeaderLine(l) ==
    IF Len(l) >= 3 /\ l[1] = "h" /\ IsHeaderDigit(l[2]) /\ l[3] = "."
    THEN Times(<<"#">>, DigitValue(l[2])) \o SubSeq(l, 4, Len(l))
    ELSE l

\* flags=re.MULTILINE, and the pattern stays within a line: line by line
JiraHeaders(s) ==
    LET ls == SplitLines(s)
    IN  JoinLines([k \in DOMAIN ls |-> JiraHeaderLine(ls[k])])

\* line 285: \+([^+]*)\+
RECURSIVE JiraInsertedFrom(_, _)
JiraInsertedFrom(s, i) ==
    IF i > Len(s) THEN <<>>
    ELSE LET ends == {e \in (i + 1)..Len(s) : s[e] = "+"}
         IN  IF s[i] = "+" /\ ends # {}
             THEN <<"<ins>">> \o SubSeq(s, i + 1, MinOf(ends) - 1) \o <<"</ins>">>
                      \o JiraInsertedFrom(s, MinOf(ends) + 1)
             ELSE <<s[i]>> \o JiraInsertedFrom(s, i + 1)

JiraInserted(s) == JiraInsertedFrom(s, 1)

\* line 294: -([^-]*)- is replaced by -\1-, the text it matched
JiraStrikethrough(s) == s

\* \{code(?::([a-z]+))?\} at i: the place after it, {} without a match
CodeOpenEnds(s, i) ==
    IF i + 1 > Len(s) \/ s[i] # "{code" THEN {}
    ELSE IF s[i + 1] = "}" THEN {i + 2}
    ELSE IF s[i + 1] # ":" THEN {}
    ELSE {e + 1 : e \in {x \in (i + 3)..Len(s) :
                            /\ s[x] = "}"
                            /\ \A k \in (i + 2)..(x - 1) : IsLower(s[k])}}

\* the places of \{code\} from b on
CodeCloses(s, b) == {e \in b..(Len(s) - 1) : s[e] = "{code" /\ s[e + 1] = "}"}

\* line 299: fence, \1, line break, \2, line break, fence
CodeFence(lang, content) == Fence \o lang \o <<"\n">> \o content \o <<"\n">> \o Fence

\* lines 297-302: \{code(?::([a-z]+))?\}([\s\S]*?)\{code\}
RECURSIVE JiraCodeBlocksFrom(_, _)
JiraCodeBlocksFrom(s, i) ==
    IF i > Len(s) THEN <<>>
    ELSE LET opens == CodeOpenEnds(s, i)
             b == IF opens = {} THEN i ELSE MinOf(opens)
             closes == CodeCloses(s, b)
         IN  IF opens # {} /\ closes # {}
             THEN CodeFence(IF s[i + 1] = ":" THEN SubSeq(s, i + 2, b - 2) ELSE <<>>,
                            SubSeq(s, b, MinOf(closes) - 1))
                      \o JiraCodeBlocksFrom(s, MinOf(closes) + 2)
             ELSE <<s[i]>> \o JiraCodeBlocksFrom(s, i + 1)

JiraCodeBlocks(s) == JiraCodeBlocksFrom(s, 1)

\* lines 250-338: the rewrites before the table loop, in their order
JiraRewrites(s) ==
    JiraCodeBlocks(JiraStrikethrough(JiraInserted(JiraHeaders(JiraLists(JiraEmphasis(s))))))

\* "||" in line
HasDoubleBar(l) == Occurs(l, <<"|", "|">>)

\* lines.insert(k, x), k counted from 1
InsertAt(ls, k, x) == SubSeq(ls, 1, k - 1) \o <<x>> \o SubSeq(ls, k, Len(ls))

HeaderCellsAll(l) == Count(l, "|")

\* line 351: header_cells = lines[i].count("|") - 1
HeaderCells(l) == Count(l, "|") - 1

\* line 353: "|" + "---|" * header_cells
SeparatorLine(n) == <<"|">> \o Times(<<"-", "-", "-", "|">>, n)

JiraTableIterationRescan(ls, i) ==
    IF HasDoubleBar(ls[i])
    THEN LET row == StrReplace(ls[i], <<"|", "|">>, <<"|">>)
             swapped == [ls EXCEPT ![i] = row]
         IN  IF HeaderCells(row) > 0
             THEN [lines |-> InsertAt(swapped, i + 1, SeparatorLine(HeaderCells(row))),
                   i |-> i + 1]
             ELSE [lines |-> swapped, i |-> i + 1]
    ELSE [lines |-> ls, i |-> i + 1]

\* lines 344-357: one iteration of the table loop, on lines ls at i
JiraTableIteration(ls, i) ==
    IF HasDoubleBar(ls[i])
    THEN LET row == StrReplace(ls[i], <<"|", "|">>, <<"|">>)
             swapped == [ls EXCEPT ![i] = row]
         IN  IF HeaderCells(row) > 0
             THEN [lines |-> InsertAt(swapped, i + 1, SeparatorLine(HeaderCells(row))),
                   i |-> i + 2]
             ELSE [lines |-> swapped, i |-> i + 1]
    ELSE [lines |-> ls, i |-> i + 1]

\* the texts given to jira_to_markdown
BulletAtoms == {"#", "-", "+", "*"}

ListLines == {r \o <<" ", "a">> : r \in SeqsUpTo(BulletAtoms, MaxRun) \ {<<>>}}

CodeContents == SeqsUpTo({"a", "*", "#", " ", "\n"}, MaxCode)

CodeOpeners == {<<"{code", "}">>, <<"{code", ":", "py", "}">>}

JiraCodeTexts ==
    {o \o c \o <<"{code", "}">> : o \in CodeOpeners, c \in CodeContents}

TableTexts == SeqsUpTo({"|", "a", "\n"}, MaxLen)

RoundTripPieces ==
    {<<"h", "1", ".", " ", "a">>, <<"*", "a", "*">>, <<"_", "a", "_">>,
     <<"{code", "}", "a", "{code", "}">>, <<"\n">>, <<" ">>, <<"a">>}

RoundTripTexts == {Concat(ps) : ps \in SeqsUpTo(RoundTripPieces, MaxPieces)}

JiraTexts == ListLines \cup JiraCodeTexts \cup TableTexts \cup RoundTripTexts

\* lines 247-341: the call, up to the table loop
JiraToMarkdownCall(t) ==
    /\ cpc = "idle"
    /\ cInput' = t
    /\ IF t = <<>>
       THEN /\ cpc' = "j2m_done"
            /\ UNCHANGED <<lines, ci>>
       ELSE /\ cpc' = "j2m_table"
            /\ lines' = SplitLines(JiraRewrites(t))
            /\ ci' = 1
    /\ jOut' = <<>>
    /\ UNCHANGED <<mdInput, mOut>>
    /\ UNCHANGED <<cacheVars, mentionVars, linkVars, htmlVars>>

\* lines 343-357
JiraTableStep ==
    /\ cpc = "j2m_table"
    /\ ci <= Len(lines)
    /\ lines' = JiraTableIteration(lines, ci).lines
    /\ ci' = JiraTableIteration(lines, ci).i
    /\ UNCHANGED <<cpc, cInput, mdInput, jOut, mOut>>
    /\ UNCHANGED <<cacheVars, mentionVars, linkVars, htmlVars>>

\* lines 360-362
JiraToMarkdownReturn ==
    /\ cpc = "j2m_table"
    /\ ci > Len(lines)
    /\ jOut' = JoinLines(lines)
    /\ cpc' = "j2m_done"
    /\ UNCHANGED <<cInput, mdInput, mOut, lines, ci>>
    /\ UNCHANGED <<cacheVars, mentionVars, linkVars, htmlVars>>

-----------------------------------------------------------------------------
(* markdown_to_jira.  The rules for "- " and "1. " list items, tags, color, *)
(* ~~ ~~, images and links need "- ", a line that starts with white space  *)
(* and "1. ", "<", "~", "!" or "[": no text below holds them, so they      *)
(* change nothing and are left out.                                        *)

MaxOf(S) == CHOOSE x \in S : \A y \in S : x >= y

\* lines 392-399: save_code_block
SaveCodeBlock(syntax, content) ==
    <<"{code">> \o (IF syntax # <<>> THEN <<":">> \o syntax ELSE <<>>)
        \o <<"}">> \o content \o <<"{code", "}">>

\* line 418: fence (\w*) \n ([\s\S]+?) fence
RECURSIVE MdCodeBlocksFrom(_, _)
MdCodeBlocksFrom(s, i) ==
    IF i > Len(s) THEN <<>>
    ELSE LET n == MinOf({k \in (i + 3)..(Len(s) + 1) :
                            k = Len(s) + 1 \/ ~IsWord(s[k])})
             closes == {e \in (n + 2)..Len(s) : IsPrefixAt(s, Fence, e)}
         IN  IF /\ IsPrefixAt(s, Fence, i)
                /\ n <= Len(s)
                /\ s[n] = "\n"
                /\ closes # {}
             THEN SaveCodeBlock(SubSeq(s, i + 3, n - 1),
                                SubSeq(s, n + 1, MinOf(closes) - 1))
                      \o MdCodeBlocksFrom(s, MinOf(closes) + 3)
             ELSE <<s[i]>> \o MdCodeBlocksFrom(s, i + 1)

MdCodeBlocks(s) == MdCodeBlocksFrom(s, 1)

\* lines 412-415: save_inline_code
SaveInlineCode(content) == <<"{", "{">> \o content \o <<"}", "}">>

\* line 419: tick ([^tick]+) tick
RECURSIVE MdInlineCodeFrom(_, _)
MdInlineCodeFrom(s, i) ==
    IF i > Len(s) THEN <<>>
    ELSE LET ticks == {e \in (i + 2)..Len(s) : s[e] = Tick}
         IN  IF /\ s[i] = Tick
                /\ i + 1 <= Len(s)
                /\ s[i + 1] # Tick
                /\ ticks # {}
             THEN SaveInlineCode(SubSeq(s, i + 1, MinOf(ticks) - 1))
                      \o MdInlineCodeFrom(s, MinOf(ticks) + 1)
             ELSE <<s[i]>> \o MdInlineCodeFrom(s, i + 1)

MdInlineCode(s) == MdInlineCodeFrom(s, 1)

\* ([=-])+ to the end of the line
IsUnderline(l) == Len(l) >= 1 /\ \A k \in DOMAIN l : l[k] \in {"=", "-"}

\* lines 422-427: ^(.*?)\n([=-])+$, from line k of ls on
RECURSIVE MdSetextFrom(_, _)
MdSetextFrom(ls, k) ==
    IF k > Len(ls) THEN <<>>
    ELSE IF k < Len(ls) /\ IsUnderline(ls[k + 1])
         THEN <<<<"h", IF ls[k + 1][Len(ls[k + 1])] = "=" THEN "1" ELSE "2",
                  ".", " ">> \o ls[k]>>
                  \o MdSetextFrom(ls, k + 2)
         ELSE <<ls[k]>> \o MdSetextFrom(ls, k + 1)

MdSetext(s) == JoinLines(MdSetextFrom(SplitLines(s), 1))

\* lines 430-435: ^([#]+)(.*?)$ on one line
MdAtxLine(l) ==
    LET n == MinOf({k \in 1..(Len(l) + 1) : k = Len(l) + 1 \/ l[k] # "#"}) - 1
    IN  IF n >= 1
        THEN <<"h">> \o Decimal(n) \o <<".">> \o SubSeq(l, n + 1, Len(l))
        ELSE l

\* flags=re.MULTILINE, and the pattern stays within a line: line by line
MdAtx(s) ==
    LET ls == SplitLines(s)
    IN  JoinLines([k \in DOMAIN ls |-> MdAtxLine(ls[k])])

\* ([*_]+)(.*?)\1 at i with a first group of g characters: where the
\* second copy of the group may start
MdEmphasisEnds(s, i, g) ==
    {e \in (i + g)..Len(s) :
        /\ IsPrefixAt(s, SubSeq(s, i, i + g - 1), e)
        /\ \A k \in (i + g)..(e - 1) : s[k] # "\n"}

\* lines 438-444: the longest first group that matches, then the shortest
\* second group
RECURSIVE MdEmphasisFrom(_, _)
MdEmphasisFrom(s, i) ==
    IF i > Len(s) THEN <<>>
    ELSE LET r == MinOf({k \in i..(Len(s) + 1) :
                            k = Len(s) + 1 \/ s[k] \notin {"*", "_"}}) - i
             gs == {g \in 1..r : MdEmphasisEnds(s, i, g) # {}}
             g == MaxOf(gs)
             e == MinOf(MdEmphasisEnds(s, i, g))
             m == IF g = 1 THEN <<"_">> ELSE <<"*">>
         IN  IF gs # {}
             THEN m \o SubSeq(s, i + g, e - 1) \o m \o MdEmphasisFrom(s, e + g)
             ELSE <<s[i]>> \o MdEmphasisFrom(s, i + 1)

MdEmphasis(s) == MdEmphasisFrom(s, 1)

\* lines 418-491: the rewrites before the table loop, in their order
MarkdownRewrites(s) == MdEmphasis(MdAtx(MdSetext(MdInlineCode(MdCodeBlocks(s)))))

\* line 497: re.match(r"\|[-\s|]+\|", line)
IsSeparatorLine(l) ==
    /\ Len(l) >= 3
    /\ l[1] = "|"
    /\ \E j \in 3..Len(l) :
          /\ l[j] = "|"
          /\ \A k \in 2..(j - 1) : l[k] \in {"-", " ", "|"}

\* lines.pop(k), k counted from 1
PopAt(ls, k) == SubSeq(ls, 1, k - 1) \o SubSeq(ls, k + 1, Len(ls))

\* lines 497-502: one iteration of the table loop, on lines ls at i
MdTableIteration(ls, i) ==
    IF i < Len(ls) /\ IsSeparatorLine(ls[i + 1])
    THEN [lines |-> PopAt([ls EXCEPT ![i] = StrReplace(ls[i], <<"|">>, <<"|", "|">>)],
                          i + 1),
          i |-> i + 1]
    ELSE [lines |-> ls, i |-> i + 1]

\* the texts given to markdown_to_jira
MdFencedTexts ==
    {Fence \o l \o <<"\n">> \o c \o Fence :
        l \in {<<>>, <<"py">>}, c \in CodeContents \ {<<>>}}

MdInlineTexts == {<<Tick>> \o c \o <<Tick>> : c \in CodeContents \ {<<>>}}

MdTableTexts == SeqsUpTo({"|", "-", "a", "\n"}, MaxMdLen)

MdTexts == MdFencedTexts \cup MdInlineTexts \cup MdTableTexts

\* lines 374-494: the call, up to the table loop
MarkdownToJiraCall(t) ==
    /\ mdInput' = t
    /\ IF t = <<>>
       THEN /\ cpc' = "m2j_done"
            /\ UNCHANGED <<lines, ci>>
       ELSE /\ cpc' = "m2j_table"
            /\ lines' = SplitLines(MarkdownRewrites(t))
            /\ ci' = 1
    /\ mOut' = <<>>
    /\ UNCHANGED <<cInput, jOut>>
    /\ UNCHANGED <<cacheVars, mentionVars, linkVars, htmlVars>>

\* lines 496-502
MdTableStep ==
    /\ cpc = "m2j_table"
    /\ ci <= Len(lines)
    /\ lines' = MdTableIteration(lines, ci).lines
    /\ ci' = MdTableIteration(lines, ci).i
    /\ UNCHANGED <<cpc, cInput, mdInput, jOut, mOut>>
    /\ UNCHANGED <<cacheVars, mentionVars, linkVars, htmlVars>>

\* lines 505-507
MarkdownToJiraReturn ==
    /\ cpc = "m2j_table"
    /\ ci > Len(lines)
    /\ mOut' = JoinLines(lines)
    /\ cpc' = "m2j_done"
    /\ UNCHANGED <<cInput, mdInput, jOut, lines, ci>>
    /\ UNCHANGED <<cacheVars, mentionVars, linkVars, htmlVars>>

\* markdown_to_jira(jira_to_markdown(x)) for a text x of headers, emphasis
\* and code blocks: the second call, on what the first returned
RoundTripCall ==
    /\ cpc = "j2m_done"
    /\ cInput \in RoundTripTexts
    /\ MarkdownToJiraCall(jOut)

InitConvert ==
    /\ CacheIdle
    /\ MentionsIdle
    /\ TextIdle

NextConvert ==
    \/ cpc = "idle" /\ \E t \in JiraTexts : JiraToMarkdownCall(t)
    \/ JiraTableStep
    \/ JiraToMarkdownReturn
    \/ cpc = "idle" /\ \E t \in MdTexts : MarkdownToJiraCall(t)
    \/ RoundTripCall
    \/ MdTableStep
    \/ MarkdownToJiraReturn

SpecConvert == InitConvert /\ [][NextConvert]_vars

-----------------------------------------------------------------------------
(* Properties of the converters *)

\* the syntax a code opener names: what stands between ":" and "}"
OpenerSyntax(o) == SubSeq(o, 3, Len(o) - 1)

\* C4: when markdown_to_jira returns from a text that is one fenced code
\* block or one inline code span, the result is the code markup around the
\* content as it was given: {code[:syntax]}, content, {code} for a block and
\* {{, content, }} for a span; no rewrite after the code rules changed it.
C4_MarkdownCodeKept ==
    cpc = "m2j_done" =>
        /\ \A l \in {<<>>, <<"py">>}, c \in CodeContents \ {<<>>} :
              mdInput = Fence \o l \o <<"\n">> \o c \o Fence =>
                  mOut = <<"{code">> \o (IF l = <<>> THEN <<>> ELSE <<":">> \o l)
                             \o <<"}">> \o c \o <<"{code", "}">>
        /\ \A c \in CodeContents \ {<<>>} :
              mdInput = <<Tick>> \o c \o <<Tick>> =>
                  mOut = <<"{", "{">> \o c \o <<"}", "}">>

\* C5: when jira_to_markdown returns from a text that is one {code[:lang]}
\* block, the result is the fence around the content as it was given: fence,
\* lang, line break, content, line break, fence.
C5_JiraCodeKept ==
    cpc = "j2m_done" =>
        \A o \in CodeOpeners, c \in CodeContents :
            cInput = o \o c \o <<"{code", "}">> =>
                jOut = Fence \o OpenerSyntax(o) \o <<"\n">> \o c \o <<"\n">> \o Fence

\* the lines the table step of jira_to_markdown starts from
JiraTableInput == SplitLines(JiraRewrites(cInput))

\* one line after the table step, a separator under every row
RowAndSeparator(l) ==
    IF HasDoubleBar(l)
    THEN LET row == StrReplace(l, <<"|", "|">>, <<"|">>)
         IN  <<row, <<"|">> \o Times(<<"-", "-", "-", "|">>, Count(row, "|") - 1)>>
    ELSE <<l>>

\* one line after the table step: the separator only under a row of two or
\* more "|"
RowAndSeparatorIfCells(l) ==
    IF HasDoubleBar(l)
    THEN LET row == StrReplace(l, <<"|", "|">>, <<"|">>)
         IN  IF Count(row, "|") >= 2
             THEN <<row, <<"|">> \o Times(<<"-", "-", "-", "|">>, Count(row, "|") - 1)>>
             ELSE <<row>>
    ELSE <<l>>

\* C6 for every line that holds "||", whatever the row holds: when
\* jira_to_markdown returns, every line that held
\* "||" stands with "||" replaced by "|" and one separator row below it, and
\* the other lines stand unchanged, in their order.
C6_EveryRowGetsSeparator ==
    (cpc = "j2m_done" /\ cInput # <<>>) =>
        SplitLines(jOut) =
            Concat([k \in DOMAIN JiraTableInput |-> RowAndSeparator(JiraTableInput[k])])

\* C6: when jira_to_markdown returns, every line that held "||" stands with
\* "||" replaced by "|"; below it stands one separator row, "|" and "---|"
\* once less than the row holds "|", when the row holds two or more "|" and
\* no row otherwise; the other lines stand unchanged, in their order, and
\* no separator row was given a separator of its own.
C6_RowsWithCellsGetSeparator ==
    (cpc = "j2m_done" /\ cInput # <<>>) =>
        SplitLines(jOut) =
            Concat([k \in DOMAIN JiraTableInput |->
                       RowAndSeparatorIfCells(JiraTableInput[k])])

\* C6 witness: jira_to_markdown has returned from ||a||a||, a header row of
\* two columns, with the row and its separator of two cells.
C6_Witness ==
    /\ cpc = "j2m_done"
    /\ cInput = <<"|", "|", "a", "|", "|", "a", "|", "|">>
    /\ jOut = <<"|", "a", "|", "a", "|", "\n",
                "|", "-", "-", "-", "|", "-", "-", "-", "|">>

\* the header lines of a wiki text
IsJiraHeader(l) == Len(l) >= 3 /\ l[1] = "h" /\ IsHeaderDigit(l[2]) /\ l[3] = "."

HeaderLines(t) == SelectSeq(SplitLines(t), IsJiraHeader)

\* the emphasis markers of a wiki text, in their order
IsEmphasisMarker(a) == a \in {"*", "_"}

EmphasisMarkers(t) == SelectSeq(t, IsEmphasisMarker)

\* the contents of the code blocks of a wiki text, in their order
RECURSIVE CodeBodiesFrom(_, _)
CodeBodiesFrom(s, i) ==
    IF i > Len(s) THEN <<>>
    ELSE LET opens == CodeOpenEnds(s, i)
             b == IF opens = {} THEN i ELSE MinOf(opens)
             closes == CodeCloses(s, b)
         IN  IF opens # {} /\ closes # {}
             THEN <<SubSeq(s, b, MinOf(closes) - 1)>>
                      \o CodeBodiesFrom(s, MinOf(closes) + 2)
             ELSE CodeBodiesFrom(s, i + 1)

CodeBodies(t) == CodeBodiesFrom(t, 1)

\* C9: when markdown_to_jira returns from what jira_to_markdown returned for
\* a text x of headers, emphasis and code blocks, the result has the header
\* lines, the emphasis markers and the code contents of x.
C9_RoundTripKeeps ==
    (cpc = "m2j_done" /\ mdInput = jOut) =>
        /\ HeaderLines(mOut) = HeaderLines(cInput)
        /\ EmphasisMarkers(mOut) = EmphasisMarkers(cInput)
        /\ CodeBodies(mOut) = CodeBodies(cInput)

\* C10: when jira_to_markdown returns from a line of n bullet characters, a
\* space and a text, the result is 2 * (n - 1) spaces, the marker "1." when
\* the last bullet character is "#" and "-" otherwise, a space and the text.
C10_ListDepthFromRun ==
    cpc = "j2m_done" =>
        \A r \in SeqsUpTo(BulletAtoms, MaxRun) \ {<<>>} :
            cInput = r \o <<" ", "a">> =>
                jOut = Times(<<" ">>, 2 * (Len(r) - 1))
                           \o (IF r[Len(r)] = "#" THEN <<"1", ".">> ELSE <<"-">>)
                           \o <<" ", "a">>

\* the lines the table step of markdown_to_jira starts from
MdTableInput == SplitLines(MarkdownRewrites(mdInput))

\* a separator line of a Markdown table: "|", then "-", "|" and white space
\* to the end of the line, with a "-" and a closing "|"
IsDashSeparatorLine(l) ==
    /\ Len(l) >= 3
    /\ l[1] = "|"
    /\ l[Len(l)] = "|"
    /\ \A k \in DOMAIN l : l[k] \in {"|", "-", " "}
    /\ \E k \in DOMAIN l : l[k] = "-"

\* the lines with every line that stands above a separator line doubled and
\* that separator line taken out, top to bottom
RECURSIVE HeadersDoubled(_)
HeadersDoubled(ls) ==
    IF ls = <<>> THEN <<>>
    ELSE IF Len(ls) >= 2 /\ IsDashSeparatorLine(ls[2])
         THEN <<StrReplace(ls[1], <<"|">>, <<"|", "|">>)>>
                  \o HeadersDoubled(SubSeq(ls, 3, Len(ls)))
         ELSE <<ls[1]>> \o HeadersDoubled(Tail(ls))

\* C12: when markdown_to_jira returns, scanning top to bottom, a line stands
\* with every "|" doubled exactly when the line right after it was a
\* separator line, that separator line is gone, and every other line stands
\* unchanged.
C12_HeaderIffSeparatorBelow ==
    (cpc = "m2j_done" /\ mdInput # <<>>) =>
        SplitLines(mOut) = HeadersDoubled(MdTableInput)

\* The converters run to their end once called: each loop step and each
\* return is taken when it can be.
SpecConvertFair ==
    /\ SpecConvert
    /\ WF_vars(JiraTableStep)
    /\ WF_vars(JiraToMarkdownReturn)
    /\ WF_vars(MdTableStep)
    /\ WF_vars(MarkdownToJiraReturn)

InTableLoop == cpc \in {"j2m_table", "m2j_table"}

\* the lines the running table loop has still to scan
ScanLeft == Len(lines) - ci + 1

\* a table loop starts at the first of the input lines, and every iteration
\* leaves fewer lines to scan than it found
TableStepCountsDown ==
    /\ (InTableLoop' /\ cpc' # cpc) => (ci' = 1 /\ ScanLeft' = Len(lines'))
    /\ (InTableLoop /\ cpc' = cpc /\ <<lines, ci>>' # <<lines, ci>>) =>
           (ScanLeft' >= 0 /\ ScanLeft' < ScanLeft)

\* C13: both table loops end: a converter that has entered its table loop
\* returns, and since every iteration leaves fewer lines to scan, counted
\* from the number of input lines, the loop takes no more iterations than
\* the input has lines, also when it inserts a line or removes one.
C13_TableLoopsTerminate ==
    /\ [][TableStepCountsDown]_vars
    /\ (cpc = "j2m_table") ~> (cpc = "j2m_done")
    /\ (cpc = "m2j_table") ~> (cpc = "m2j_done")

\* C13 witness: jira_to_markdown has returned from a text of two or more
\* lines after its table loop, which inserted lines, reached the end.
C13_Witness ==
    /\ cpc = "j2m_done"
    /\ ci = Len(lines) + 1
    /\ Len(SplitLines(cInput)) >= 2
    /\ Len(lines) > Len(SplitLines(cInput))

====
